---- MODULE Spec2Model ----
(***************************************************************************)
(* A model of the blob-reference handling of ryker-css:                    *)
(*   src/src/app/routes.py    the URL helpers and the item / SAS handlers  *)
(*   src/src/app/blobstore.py the two SAS helpers of the blob store        *)
(*                                                                         *)
(* A Python string is a sequence of tokens.  A token is a piece of text    *)
(* the code never looks inside: the separators the code searches for       *)
(* (":", "/", "?", "#", ".net", " ")   are tokens of their own, so that    *)
(* find / split / startswith on tokens is find / split / startswith on     *)
(* the characters.                                                         *)
(***************************************************************************)
EXTENDS Integers, Sequences, FiniteSets, TLC

VARIABLES
    ref,     \* the reference under test (how the input string was built)
    cur,     \* the current string: the input, then each helper's result
    ops,     \* the helpers applied so far, in order
    raised,  \* the exception the last helper raised, "" when it returned
    store,   \* the Cosmos container: item id -> stored document
    resp,    \* the response of the last request
    migrated, \* item id -> the URL its migrating download redirected to
    req,     \* the parameters of the signing requests of this behaviour
    now,     \* the clock (utcnow), in minutes
    BLOB_SAS_TTL_MINUTES, \* the setting blobstore.py reads its ttl from
    call,    \* the last call of generate_blob_sas
    reply,   \* the response of the last SAS request
    dl       \* the download requests in flight: each one's position and result

normVars == <<ref, cur, ops, raised>>

storeVars == <<store, resp, migrated>>

sasVars == <<req, now, BLOB_SAS_TTL_MINUTES, call, reply>>

vars == <<ref, cur, ops, raised, store, resp, migrated, req, now,
         BLOB_SAS_TTL_MINUTES, call, reply, dl>>

(***************************************************************************)
(* Settings (src/src/app/settings.py)                                      *)
(***************************************************************************)
BLOB_ACCOUNT == <<"acct">>

BLOB_CONTAINER == <<"files">>

\* f"https://{s.BLOB_ACCOUNT}.blob.core.windows.net"
AccountHost == BLOB_ACCOUNT \o <<".blob.core.windows", ".net">>

(***************************************************************************)
(* Python's str operations, on token sequences                             *)
(***************************************************************************)
RECURSIVE lstrip(_)
lstrip(s) == IF s # <<>> /\ Head(s) = " " THEN lstrip(Tail(s)) ELSE s

RECURSIVE rstrip(_)
rstrip(s) ==
    IF s # <<>> /\ s[Len(s)] = " " THEN rstrip(SubSeq(s, 1, Len(s) - 1)) ELSE s

\* str.strip()
strip(s) == rstrip(lstrip(s))

\* str.startswith(p)
startswith(s, p) == Len(s) >= Len(p) /\ SubSeq(s, 1, Len(p)) = p

\* str.find(p), 1-based; 0 when p does not occur
find(s, p) ==
    LET hits == {i \in 1..(Len(s) - Len(p) + 1) : SubSeq(s, i, i + Len(p) - 1) = p}
    IN IF hits = {} THEN 0 ELSE CHOOSE i \in hits : \A j \in hits : i <= j

\* p in s
contains(s, p) == find(s, p) # 0

\* s.split(p, 1)[0]
split_head(s, p) == IF contains(s, p) THEN SubSeq(s, 1, find(s, p) - 1) ELSE s

\* s.split(p, 1)[1]; raises IndexError when p does not occur: the callers
\* test contains(s, p) first and take their except branch otherwise
split_tail(s, p) == SubSeq(s, find(s, p) + Len(p), Len(s))

\* one of the tokens `toks` occurs in s
HasToken(s, toks) == \E k \in 1..Len(s) : s[k] \in toks

\* s.split("/")[-1]
RECURSIVE last_segment(_)
last_segment(s) ==
    IF contains(s, <<"/">>) THEN last_segment(split_tail(s, <<"/">>)) ELSE s

(***************************************************************************)
(* urllib.parse.urlsplit / urlunsplit, as _strip_sas uses them             *)
(***************************************************************************)
\* the tokens made only of scheme characters (letters, digits, "+-.")
SchemeTokens ==
    {"http", "https", "ftp", "acct", "other", "files", "docs", "a.pdf", "2024",
     "sig", "frag", ".blob.core.windows", ".net", ".example", ".com"}

\* the tokens whose first character is a letter
LetterTokens ==
    {"http", "https", "ftp", "acct", "other", "files", "docs", "a.pdf", "sig", "frag"}

\* the first index of a token of `stops` in s, or Len(s) + 1
first_of(s, stops) ==
    LET hits == {i \in 1..Len(s) : s[i] \in stops}
    IN IF hits = {} THEN Len(s) + 1 ELSE CHOOSE i \in hits : \A j \in hits : i <= j

\* the schemes of urllib.parse.uses_netloc that the tokens can spell
uses_netloc == {<<"http">>, <<"https">>, <<"ftp">>}

\* urlsplit(url): scheme, netloc, path, query, fragment
urlsplit(url0) ==
    LET url1 == lstrip(url0)
        i == find(url1, <<":">>)
        has_scheme == /\ i > 1
                      /\ url1[1] \in LetterTokens
                      /\ \A k \in 1..(i - 1) : url1[k] \in SchemeTokens
        scheme == IF has_scheme THEN SubSeq(url1, 1, i - 1) ELSE <<>>
        url2 == IF has_scheme THEN SubSeq(url1, i + 1, Len(url1)) ELSE url1
        \* _splitnetloc(url, 2): the netloc runs to the first "/", "?" or "#"
        has_netloc == startswith(url2, <<"/", "/">>)
        after == SubSeq(url2, 3, Len(url2))
        n == first_of(after, {"/", "?", "#"})
        netloc == IF has_netloc THEN SubSeq(after, 1, n - 1) ELSE <<>>
        url3 == IF has_netloc THEN SubSeq(after, n, Len(after)) ELSE url2
        h == first_of(url3, {"#"})
        url4 == SubSeq(url3, 1, h - 1)
        q == first_of(url4, {"?"})
    IN [scheme |-> scheme, netloc |-> netloc,
        path |-> SubSeq(url4, 1, q - 1),
        query |-> SubSeq(url4, q + 1, Len(url4)),
        fragment |-> SubSeq(url3, h + 1, Len(url3))]

\* urlunsplit((scheme, netloc, path, "", ""))
urlunsplit_no_query(parts) ==
    LET url1 ==
            IF \/ parts.netloc # <<>>
               \/ /\ parts.scheme \in uses_netloc
                  /\ ~startswith(parts.path, <<"/", "/">>)
            THEN <<"/", "/">> \o parts.netloc
                 \o (IF parts.path # <<>> /\ Head(parts.path) # "/"
                     THEN <<"/">> \o parts.path
                     ELSE parts.path)
            ELSE parts.path
    IN IF parts.scheme # <<>> THEN parts.scheme \o <<":">> \o url1 ELSE url1

(***************************************************************************)
(* The URL helpers of routes.py                                            *)
(***************************************************************************)
\* _strip_sas(url)
_strip_sas(url) ==
    IF url = <<>> THEN url ELSE urlunsplit_no_query(urlsplit(url))

\* _normalize_blob_name without the split("?", 1)[0] of line 38
normalize_blob_name_keep_query(value) ==
    LET v == strip(value)
        prefix == BLOB_CONTAINER \o <<"/">>
        path == split_tail(v, <<".net", "/">>)
    IN IF contains(v, <<":", "/", "/">> \o AccountHost \o <<"/">>)
          /\ (startswith(path, prefix) \/ contains(path, <<"/">>))
       THEN IF startswith(path, prefix)
            THEN SubSeq(path, Len(prefix) + 1, Len(path))
            ELSE split_tail(path, <<"/">>)
       ELSE IF startswith(v, prefix)
            THEN SubSeq(v, Len(prefix) + 1, Len(v))
            ELSE v

\* _normalize_blob_name(s, value)
_normalize_blob_name(value) ==
    LET v == strip(value)
        prefix == BLOB_CONTAINER \o <<"/">>
        \* line 38; the test of line 36 makes ".net/" occur in v
        path == split_head(split_tail(v, <<".net", "/">>), <<"?">>)
        \* lines 39-41 return unless path.split("/", 1)[1] raises IndexError,
        \* which line 42 swallows
        returns == startswith(path, prefix) \/ contains(path, <<"/">>)
    IN IF contains(v, <<":", "/", "/">> \o AccountHost \o <<"/">>) /\ returns
       THEN IF startswith(path, prefix)
            THEN SubSeq(path, Len(prefix) + 1, Len(path))
            ELSE split_tail(path, <<"/">>)
       ELSE IF startswith(v, prefix)
            THEN SubSeq(v, Len(prefix) + 1, Len(v))
            ELSE v

\* _public_blob_url without the test of line 85: the container is always
\* put in front
public_blob_url_always_prefix(blob_path_or_name) ==
    LET v == strip(blob_path_or_name)
    IN IF startswith(v, <<"http", ":", "/", "/">>) \/ startswith(v, <<"https", ":", "/", "/">>)
       THEN _strip_sas(v)
       ELSE <<"https", ":", "/", "/">> \o AccountHost \o <<"/">> \o BLOB_CONTAINER \o <<"/">> \o v

\* _public_blob_url(s, blob_path_or_name)
_public_blob_url(blob_path_or_name) ==
    LET v == strip(blob_path_or_name)
    IN IF startswith(v, <<"http", ":", "/", "/">>) \/ startswith(v, <<"https", ":", "/", "/">>)
       THEN _strip_sas(v)
       ELSE <<"https", ":", "/", "/">> \o AccountHost \o <<"/">>
            \o (IF startswith(v, BLOB_CONTAINER \o <<"/">>)
                THEN v
                ELSE BLOB_CONTAINER \o <<"/">> \o v)

(***************************************************************************)
(* References: the strings the helpers are applied to                      *)
(***************************************************************************)
\* object names: plain, hierarchical, starting with the container name,
\* with a "?", with a blank before or after, empty
Names ==
    {<<"a.pdf">>, <<"2024", "/", "a.pdf">>, <<"files", "/", "a.pdf">>,
     <<"files", "/", "2024", "/", "a.pdf">>, <<"a.pdf", "?", "sig">>,
     <<" ", "a.pdf">>, <<"a.pdf", " ">>, <<>>}

Schemes == {<<"http">>, <<"https">>, <<"ftp">>}

Hosts == {AccountHost, <<"other", ".example", ".com">>, <<"other", ".example", ".net">>}

Containers == {BLOB_CONTAINER, <<"docs">>}

Queries == {<<>>, <<"?", "sig">>}

Fragments == {<<>>, <<"#", "frag">>}

NoPart == <<>>

\* FullUrl(scheme, host, containerName, objectName, query?) with a fragment
UrlRefs ==
    {[form |-> "url", scheme |-> s, host |-> h, cont |-> c, name |-> n,
      query |-> q, frag |-> f] :
        s \in Schemes, h \in Hosts, c \in Containers, n \in Names,
        q \in Queries, f \in Fragments}

\* a URL whose path has a single segment
ShortUrlRefs ==
    {[form |-> "url1", scheme |-> s, host |-> h, cont |-> NoPart, name |-> <<"a.pdf">>,
      query |-> q, frag |-> NoPart] :
        s \in Schemes, h \in Hosts, q \in Queries}

\* QualifiedPath(containerName, objectName)
PathRefs ==
    {[form |-> "path", scheme |-> NoPart, host |-> NoPart, cont |-> c, name |-> n,
      query |-> NoPart, frag |-> NoPart] : c \in Containers, n \in Names}

\* BareName(objectName)
NameRefs ==
    {[form |-> "name", scheme |-> NoPart, host |-> NoPart, cont |-> NoPart, name |-> n,
      query |-> NoPart, frag |-> NoPart] : n \in Names}

Refs == UrlRefs \cup ShortUrlRefs \cup PathRefs \cup NameRefs

\* the string of a reference
Render(r) ==
    CASE r.form = "url" ->
            r.scheme \o <<":", "/", "/">> \o r.host \o <<"/">> \o r.cont \o <<"/">> \o r.name
            \o r.query \o r.frag
      [] r.form = "url1" ->
            r.scheme \o <<":", "/", "/">> \o r.host \o <<"/">> \o r.name \o r.query
      [] r.form = "path" -> r.cont \o <<"/">> \o r.name
      [] OTHER -> r.name

\* how many helpers are applied in a row to one reference
MaxChain == 2

(***************************************************************************)
(* Documents and the Cosmos container                                      *)
(***************************************************************************)
\* the number of item ids
NumIds == 1

Ids == 1..NumIds

\* a document is a Python dict: a function from the keys it has to strings
\* ("id" and "pk" are left out: the container is keyed by id, and there is
\* one partition)
has(d, k) == k \in DOMAIN d

\* d.get(k) is truthy: the key is there and its string is not empty
truthy(d, k) == has(d, k) /\ d[k] # <<>>

\* d[k] = v
set(d, k, v) == [x \in DOMAIN d \cup {k} |-> IF x = k THEN v ELSE d[x]]

UrlPlain == <<"https", ":", "/", "/">> \o AccountHost \o <<"/", "files", "/", "a.pdf">>

\* the fileUrl values clients send, each with a SAS: of a blob, of the
\* account's root, of a host that is not under ".net"
FileUrlValues ==
    {UrlPlain \o <<"?", "sig">>,
     <<"https", ":", "/", "/">> \o AccountHost \o <<"/", "?", "sig">>,
     <<"https", ":", "/", "/", "other", ".example", ".com", "/", "files", "/", "a.pdf", "?", "sig">>}

\* the blobPath values clients send: a qualified path with a "?", a full
\* URL with a SAS, empty
BlobPathValues ==
    {<<"files", "/", "a.pdf", "?", "sig">>, UrlPlain \o <<"?", "sig">>, <<>>}

FieldValues(k) == IF k = "fileUrl" THEN FileUrlValues ELSE BlobPathValues

\* the JSON bodies and multipart forms of the requests
Bodies ==
    UNION {{d \in [K -> FileUrlValues \cup BlobPathValues] :
                \A k \in K : d[k] \in FieldValues(k)} :
           K \in SUBSET {"fileUrl", "blobPath"}}

NoDocs == {}

NoUrl == <<>>

Response(op, id, status, docs, location, wrote, prior) ==
    [op |-> op, id |-> id, status |-> status, docs |-> docs,
     location |-> location, wrote |-> wrote, prior |-> prior]

\* a response that carries neither documents nor a redirect
Plain(op, id, status) == Response(op, id, status, NoDocs, NoUrl, FALSE, NoUrl)

put(c, i, d) == [x \in DOMAIN c \cup {i} |-> IF x = i THEN d ELSE c[x]]

remove(c, i) == [x \in DOMAIN c \ {i} |-> c[x]]

\* _sanitize_doc_urls(s, doc)
_sanitize_doc_urls(doc) ==
    IF truthy(doc, "fileUrl")
    THEN set(doc, "fileUrl", _strip_sas(doc["fileUrl"]))
    ELSE IF truthy(doc, "blobPath")
         THEN set(doc, "fileUrl", _public_blob_url(doc["blobPath"]))
         ELSE doc

(***************************************************************************)
(* The item handlers of routes.py                                          *)
(***************************************************************************)
\* an early return: the response of a request that changes nothing
Reply(r) == resp' = r /\ UNCHANGED <<store, migrated>>

\* the documents a query returns, each through _sanitize_doc_urls
Page(op, S) ==
    Reply(Response(op, 0, 200, {_sanitize_doc_urls(store[i]) : i \in S},
                   NoUrl, FALSE, NoUrl))

\* GET /items: the page is whatever the query matches
list_items ==
    /\ \/ Reply(Plain("list_items", 0, 400))
       \/ \E S \in SUBSET DOMAIN store : Page("list_items", S)
    /\ UNCHANGED <<normVars, sasVars, dl>>

\* GET /items/<id>
get_item ==
    \E i \in Ids :
        /\ \/ Reply(Plain("get_item", i, 400))
           \/ IF i \in DOMAIN store
              THEN Reply(Response("get_item", i, 200, {_sanitize_doc_urls(store[i])},
                                  NoUrl, FALSE, NoUrl))
              ELSE Reply(Plain("get_item", i, 404))
        /\ UNCHANGED <<normVars, sasVars, dl>>

\* container().create_item(doc) of an id that is free, then the 201 with
\* the sanitized copy
cosmos_create(op, i, doc) ==
    /\ store' = put(store, i, doc)
    /\ resp' = Response(op, i, 201, {_sanitize_doc_urls(doc)}, NoUrl, TRUE, NoUrl)
    /\ migrated' = [migrated EXCEPT ![i] = NoUrl]

\* f"{s.BLOB_CONTAINER}/{form['pk']}/{form['id']}-{suffix}.pdf"
upload_blob_path(i) == BLOB_CONTAINER \o <<"/", "pk", "/", ToString(i), "-", "8hex", ".pdf">>

\* lines 216-219 and 234-237: strip the SAS of a fileUrl the body brings,
\* else derive the fileUrl from the blobPath
normalize_incoming(body) ==
    IF has(body, "fileUrl")
    THEN set(body, "fileUrl", _strip_sas(body["fileUrl"]))
    ELSE IF truthy(body, "blobPath")
         THEN set(body, "fileUrl", _public_blob_url(body["blobPath"]))
         ELSE body

\* lines 190-203: the form goes into the document as it is; an attached
\* file sets blobPath and fileUrl
multipart_doc(i, form, file) ==
    IF file
    THEN set(set(form, "blobPath", upload_blob_path(i)),
             "fileUrl", _public_blob_url(upload_blob_path(i)))
    ELSE form

\* POST /items; container().create_item raises CosmosResourceExistsError
\* for an id that exists, whatever the document, and no handler catches it
create_item ==
    \E i \in Ids :
        /\ \/ \* 'id' or 'pk' is missing
              Reply(Plain("create_item", i, 400))
           \/ /\ i \in DOMAIN store
              /\ Reply(Plain("create_item", i, 500))
           \/ \* multipart/form-data
              /\ i \notin DOMAIN store
              /\ \E form \in Bodies, file \in BOOLEAN :
                    cosmos_create("create_item", i, multipart_doc(i, form, file))
           \/ \* a JSON body
              /\ i \notin DOMAIN store
              /\ \E body \in Bodies :
                    cosmos_create("create_item", i, normalize_incoming(body))
        /\ UNCHANGED <<normVars, sasVars, dl>>

\* lines 242-246: an existing blobPath is carried over, and the fileUrl
\* refreshed from it when the body brings none
carry_blob_path(body, existing) ==
    IF ~has(body, "blobPath") /\ has(existing, "blobPath")
    THEN IF has(body, "fileUrl")
         THEN set(body, "blobPath", existing["blobPath"])
         ELSE set(set(body, "blobPath", existing["blobPath"]),
                  "fileUrl", _public_blob_url(existing["blobPath"]))
    ELSE body

\* PUT /items/<id>
upsert_item ==
    \E i \in Ids :
        /\ \/ \* no 'pk'
              Reply(Plain("upsert_item", i, 400))
           \/ \E body0 \in Bodies :
                LET body == normalize_incoming(body0)
                IN IF i \in DOMAIN store
                   THEN LET replaced == carry_blob_path(body, store[i])
                        IN /\ store' = put(store, i, replaced)
                           /\ resp' = Response("upsert_item", i, 200,
                                               {_sanitize_doc_urls(replaced)},
                                               NoUrl, TRUE, NoUrl)
                           /\ migrated' = [migrated EXCEPT ![i] = NoUrl]
                   ELSE cosmos_create("upsert_item", i, body)
        /\ UNCHANGED <<normVars, sasVars, dl>>

\* DELETE /items/<id>
delete_item ==
    \E i \in Ids :
        /\ \/ Reply(Plain("delete_item", i, 400))
           \/ IF i \in DOMAIN store
              THEN /\ store' = remove(store, i)
                   /\ resp' = Plain("delete_item", i, 204)
                   /\ migrated' = [migrated EXCEPT ![i] = NoUrl]
              ELSE Reply(Plain("delete_item", i, 404))
        /\ UNCHANGED <<normVars, sasVars, dl>>

\* line 282: file_url.split(".net/", 1)[1].split("?", 1)[0]
derived_blob_path(file_url) == split_head(split_tail(file_url, <<".net", "/">>), <<"?">>)

\* the answer of a download that wrote nothing
Download(i, status, location) ==
    Reply(Response("download_item_pdf", i, status, NoDocs, location, FALSE, migrated[i]))

\* GET /items/<id>/download; replace_ok: whether replace_item succeeds
download_item_pdf ==
    \E i \in Ids :
        /\ \/ Reply(Plain("download_item_pdf", i, 400))
           \/ IF i \notin DOMAIN store
              THEN Reply(Plain("download_item_pdf", i, 404))
              ELSE LET doc == store[i]
                   IN IF truthy(doc, "blobPath")
                      THEN Download(i, 302, _public_blob_url(doc["blobPath"]))
                      ELSE IF ~truthy(doc, "fileUrl")
                      THEN Download(i, 404, NoUrl)
                      ELSE IF ~contains(doc["fileUrl"], <<".net", "/">>)
                      THEN \* IndexError of line 282, caught at line 286
                           Download(i, 500, NoUrl)
                      ELSE \E replace_ok \in BOOLEAN :
                           IF ~replace_ok
                           THEN \* line 284 raises, caught at line 286
                                Download(i, 500, NoUrl)
                           ELSE LET path == derived_blob_path(doc["fileUrl"])
                                    url == _public_blob_url(path)
                                IN /\ store' = put(store, i, set(doc, "blobPath", path))
                                   /\ resp' = Response("download_item_pdf", i, 302, NoDocs,
                                                       url, TRUE, migrated[i])
                                   /\ migrated' = [migrated EXCEPT ![i] = url]
        /\ UNCHANGED <<normVars, sasVars, dl>>

\* GET /search
search_items ==
    /\ \E S \in SUBSET DOMAIN store : Page("search_items", S)
    /\ UNCHANGED <<normVars, sasVars, dl>>

\* GET /search/one
search_one ==
    /\ \/ Reply(Plain("search_one", 0, 400))
       \/ \E S \in SUBSET DOMAIN store : Page("search_one", S)
    /\ UNCHANGED <<normVars, sasVars, dl>>

(***************************************************************************)
(* download_item_pdf by its container accesses: the read_item of line 273  *)
(* and the replace_item of line 284 are two requests to Cosmos, and other  *)
(* requests run between them                                               *)
(***************************************************************************)
\* the number of download requests in flight
NumProcs == 2

Procs == 1..NumProcs

\* a download request: where it is, the document it read, what it answered
Call(pc, id, doc, status, location, wrote, failed) ==
    [pc |-> pc, id |-> id, doc |-> doc, status |-> status, location |-> location,
     wrote |-> wrote, failed |-> failed]

NoDoc == <<>>

IdleCall == Call("idle", 0, NoDoc, 0, NoUrl, FALSE, FALSE)

\* a request that answered without a write
Answered(i, doc, status, location) == Call("done", i, doc, status, location, FALSE, FALSE)

\* the documents the create handlers store for id i
StoredDocs(i) ==
    {normalize_incoming(body) : body \in Bodies}
    \cup {multipart_doc(i, form, file) : form \in Bodies, file \in BOOLEAN}

\* line 283 with the blobPath left as it was read
migrated_doc_without_blob_path(doc, path) == doc

\* line 283: doc["blobPath"] = path, on the document as it was read
migrated_doc(doc, path) == set(doc, "blobPath", path)

\* lines 269-282: up to the read_item and what follows from the document
download_read(p) ==
    /\ dl[p].pc = "idle"
    /\ \E i \in Ids :
        \/ dl' = [dl EXCEPT ![p] = Answered(i, NoDoc, 400, NoUrl)]
        \/ /\ i \notin DOMAIN store
           /\ dl' = [dl EXCEPT ![p] = Answered(i, NoDoc, 404, NoUrl)]
        \/ /\ i \in DOMAIN store
           /\ LET doc == store[i]
              IN dl' = [dl EXCEPT ![p] =
                    IF truthy(doc, "blobPath")
                    THEN Answered(i, doc, 302, _public_blob_url(doc["blobPath"]))
                    ELSE IF ~truthy(doc, "fileUrl")
                    THEN Answered(i, doc, 404, NoUrl)
                    ELSE IF ~contains(doc["fileUrl"], <<".net", "/">>)
                    THEN Answered(i, doc, 500, NoUrl)
                    ELSE Call("write", i, doc, 0, NoUrl, FALSE, FALSE)]
    /\ UNCHANGED <<storeVars, normVars, sasVars>>

\* lines 283-291: the replace_item of the document as read, then the
\* redirect; replace_item raises for an item that is gone or when the
\* container fails, and line 286 answers 500
download_write(p) ==
    /\ dl[p].pc = "write"
    /\ LET i == dl[p].id
           doc == dl[p].doc
           path == derived_blob_path(doc["fileUrl"])
       IN \/ /\ i \in DOMAIN store
             /\ store' = put(store, i, migrated_doc(doc, path))
             /\ dl' = [dl EXCEPT ![p] =
                    Call("done", i, doc, 302, _public_blob_url(path), TRUE, FALSE)]
          \/ /\ store' = store
             /\ dl' = [dl EXCEPT ![p] = Call("done", i, doc, 500, NoUrl, FALSE, TRUE)]
    /\ UNCHANGED <<resp, migrated, normVars, sasVars>>

(***************************************************************************)
(* The helpers applied to references                                       *)
(***************************************************************************)
\* _normalize_blob_name has no raise of its own and swallows (line 42) what
\* its try block raises: it always returns
Normalize ==
    /\ Len(ops) < MaxChain
    /\ cur' = _normalize_blob_name(cur)
    /\ ops' = Append(ops, "normalize")
    /\ raised' = ""
    /\ UNCHANGED <<ref, storeVars, sasVars, dl>>

PublicUrl ==
    /\ Len(ops) < MaxChain
    /\ cur' = _public_blob_url(cur)
    /\ ops' = Append(ops, "public_url")
    /\ raised' = ""
    /\ UNCHANGED <<ref, storeVars, sasVars, dl>>

StripSas ==
    /\ Len(ops) < MaxChain
    /\ cur' = _strip_sas(cur)
    /\ ops' = Append(ops, "strip_sas")
    /\ raised' = ""
    /\ UNCHANGED <<ref, storeVars, sasVars, dl>>

(***************************************************************************)
(* Signed URLs: blob_sas of routes.py and the helpers of blobstore.py      *)
(***************************************************************************)
\* the latest minute of the clock
MaxClock == 2

\* how many minutes may pass between two reads of the clock in one handler
MaxDrift == 1

\* datetime.timedelta(minutes=5) of routes.py line 495
SkewMinutes == 5

\* timedelta(minutes=1) of blobstore.py lines 65 and 108
BlobstoreSkewMinutes == 1

MinutesPerHour == 60

\* BlobSasPermissions(read=..., write=..., delete=..., list=...)
BlobSasPermissions(read, write, delete, list) ==
    {p \in {"read", "write", "delete", "list"} :
        \/ p = "read" /\ read
        \/ p = "write" /\ write
        \/ p = "delete" /\ delete
        \/ p = "list" /\ list}

NoDisposition == [mode |-> "", filename |-> <<>>]

\* the arguments of one call of generate_blob_sas, and of the request it
\* serves: at, the clock when the handler read it first; hours_raw, the ttl
\* the caller sent (<<>> when none)
NoCall ==
    [site |-> "none", container_name |-> <<>>, blob_name |-> <<>>, permission |-> {},
     start |-> 0, expiry |-> 0, content_disposition |-> NoDisposition,
     content_type |-> "", at |-> 0, hours_raw |-> <<>>]

\* the response of a SAS request
SasReply(op, status, url) == [op |-> op, status |-> status, url |-> url]

NoReply == SasReply("none", 0, <<>>)

Digits == <<"0", "1", "2", "3", "4", "5", "6", "7", "8", "9">>

digit(d) == (CHOOSE k \in 1..10 : Digits[k] = d) - 1

RECURSIVE decimal(_)
decimal(s) == IF s = <<>> THEN 0 ELSE 10 * decimal(SubSeq(s, 1, Len(s) - 1)) + digit(s[Len(s)])

all_digits(s) == s # <<>> /\ \A k \in 1..Len(s) : \E j \in 1..10 : Digits[j] = s[k]

\* int(s) returns
int_ok(s) == IF s # <<>> /\ Head(s) \in {"-", "+"} THEN all_digits(Tail(s)) ELSE all_digits(s)

\* int(s)
int(s) == IF Head(s) = "-" THEN 0 - decimal(Tail(s))
          ELSE IF Head(s) = "+" THEN decimal(Tail(s)) ELSE decimal(s)

\* lines 488-491: int(hours_raw) if hours_raw else 1, and 1 when int raises
parse_hours(hours_raw) == IF hours_raw # <<>> /\ int_ok(hours_raw) THEN int(hours_raw) ELSE 1

\* the ?path= values: a name, a hierarchical name, a qualified path, a full
\* URL with a SAS, blanks only, the container prefix alone, empty or absent
SasPaths ==
    {<<"a.pdf">>, <<"2024", "/", "a.pdf">>, <<"files", "/", "a.pdf">>,
     UrlPlain \o <<"?", "sig">>, <<" ">>, <<"files", "/">>, <<>>}

\* the ?hours= values, by character; <<>> is empty or absent
HoursRaw == {<<>>, <<"0">>, <<"2">>, <<"2", "4">>, <<"-", "1">>, <<"x">>}

\* the ?filename= and download_name values; <<>> is empty or absent
Filenames == {<<>>, <<"x.pdf">>}

\* the content types; "" is empty or absent
ContentTypes == {"", "application/pdf"}

\* the ?att= values; absent reads as "0"
AttValues == {"0", "1"}

\* the query of GET /blob/sas; the blobstore helpers take content_type and
\* download_name from it.  The signing handlers keep no state of their own,
\* so one behaviour serves one set of parameters, at any time and any number
\* of times.
SasRequests ==
    [path : SasPaths, filename : Filenames, att : AttValues, hours_raw : HoursRaw,
     content_type : ContentTypes]

NoRequest ==
    [path |-> <<>>, filename |-> <<>>, att |-> "0", hours_raw |-> <<>>, content_type |-> ""]

signed_url(container_name, blob_name) ==
    <<"https", ":", "/", "/">> \o AccountHost \o <<"/">> \o container_name
    \o <<"/">> \o blob_name \o <<"?", "sas">>

\* the generate_blob_sas call of blob_sas with write permission as well
blob_sas_call_read_write(blob_name, filename, as_attachment, hours_raw, content_type, t1, t2) ==
    [site |-> "blob_sas", container_name |-> BLOB_CONTAINER, blob_name |-> blob_name,
     permission |-> BlobSasPermissions(TRUE, TRUE, FALSE, FALSE),
     start |-> t1 - SkewMinutes,
     expiry |-> t2 + parse_hours(hours_raw) * MinutesPerHour,
     content_disposition |->
        [mode |-> IF as_attachment THEN "attachment" ELSE "inline",
         filename |-> IF filename # <<>> THEN filename ELSE last_segment(blob_name)],
     content_type |-> IF content_type # "" THEN content_type ELSE "application/octet-stream",
     at |-> t1, hours_raw |-> hours_raw]

\* lines 495-509 of routes.py; t1 and t2: the two reads of utcnow()
blob_sas_call(blob_name, filename, as_attachment, hours_raw, content_type, t1, t2) ==
    [site |-> "blob_sas", container_name |-> BLOB_CONTAINER, blob_name |-> blob_name,
     permission |-> BlobSasPermissions(TRUE, FALSE, FALSE, FALSE),
     start |-> t1 - SkewMinutes,
     expiry |-> t2 + parse_hours(hours_raw) * MinutesPerHour,
     content_disposition |->
        [mode |-> IF as_attachment THEN "attachment" ELSE "inline",
         filename |-> IF filename # <<>> THEN filename ELSE last_segment(blob_name)],
     content_type |-> IF content_type # "" THEN content_type ELSE "application/octet-stream",
     at |-> t1, hours_raw |-> hours_raw]

\* GET /blob/sas
blob_sas ==
    \E drift \in 0..MaxDrift :
        /\ IF req.path = <<>>
           THEN \* "path is required"
                /\ reply' = SasReply("blob_sas", 400, <<>>)
                /\ call' = NoCall
           ELSE LET blob_name == _normalize_blob_name(req.path)
                IN /\ call' = blob_sas_call(blob_name, req.filename, req.att = "1",
                                            req.hours_raw, req.content_type,
                                            now, now + drift)
                   /\ reply' = SasReply("blob_sas", 200, signed_url(BLOB_CONTAINER, blob_name))
        /\ UNCHANGED <<req, now, BLOB_SAS_TTL_MINUTES, normVars, storeVars, dl>>

\* lines 96-113 (and 51-71) of blobstore.py: both helpers sign alike; the
\* caller passes no ttl, which is settings.BLOB_SAS_TTL_MINUTES
blobstore_call(site, container_name, blob_name, content_type, download_name, t1, t2) ==
    [site |-> site, container_name |-> container_name, blob_name |-> blob_name,
     permission |-> BlobSasPermissions(TRUE, FALSE, FALSE, FALSE),
     start |-> t1 - BlobstoreSkewMinutes, expiry |-> t2 + BLOB_SAS_TTL_MINUTES,
     content_disposition |->
        IF download_name # <<>>
        THEN [mode |-> "inline", filename |-> download_name]
        ELSE NoDisposition,
     content_type |-> content_type,
     at |-> t1, hours_raw |-> <<>>]

\* the blob_path values of sas_url_for_blob_path
BlobPaths == {<<"files", "/", "a.pdf">>, <<"docs", "/", "2024", "/", "a.pdf">>, <<"a.pdf">>}

\* sas_url_for_blob_path(settings, blob_path, content_type=, download_name=)
sas_url_for_blob_path ==
    \E blob_path \in BlobPaths, drift \in 0..MaxDrift :
        /\ IF ~contains(blob_path, <<"/">>)
           THEN \* ValueError("blob_path must be '<container>/<blobName>'")
                /\ reply' = SasReply("sas_url_for_blob_path", 500, <<>>)
                /\ call' = NoCall
           ELSE LET container_name == split_head(blob_path, <<"/">>)
                    blob_name == split_tail(blob_path, <<"/">>)
                IN /\ call' = blobstore_call("sas_url_for_blob_path", container_name,
                                             blob_name, req.content_type, req.filename,
                                             now, now + drift)
                   /\ reply' = SasReply("sas_url_for_blob_path", 200,
                                        signed_url(container_name, blob_name))
        /\ UNCHANGED <<req, now, BLOB_SAS_TTL_MINUTES, normVars, storeVars, dl>>

\* upload_bytes_and_get_sas(settings, blob_name=, data=, content_type=,
\* download_name=), with the blob name create_item gives an upload
upload_bytes_and_get_sas ==
    \E i \in Ids, drift \in 0..MaxDrift :
        LET blob_name == SubSeq(upload_blob_path(i), 3, Len(upload_blob_path(i)))
        IN /\ call' = blobstore_call("upload_bytes_and_get_sas", BLOB_CONTAINER, blob_name,
                                     req.content_type, req.filename, now, now + drift)
           /\ reply' = SasReply("upload_bytes_and_get_sas", 200,
                                signed_url(BLOB_CONTAINER, blob_name))
           /\ UNCHANGED <<req, now, BLOB_SAS_TTL_MINUTES, normVars, storeVars, dl>>

\* time passes
Tick ==
    /\ now < MaxClock
    /\ now' = now + 1
    /\ UNCHANGED <<req, BLOB_SAS_TTL_MINUTES, call, reply, normVars, storeVars, dl>>

(***************************************************************************)
(* The specifications: the item handlers on the container (Spec), the URL  *)
(* helpers on references (SpecNorm), the signing handlers (SpecSas)        *)
(***************************************************************************)
StoreIdle ==
    /\ store = <<>>
    /\ resp = Plain("none", 0, 0)
    /\ migrated = [i \in Ids |-> NoUrl]

NormIdle ==
    /\ ref = [form |-> "name", scheme |-> NoPart, host |-> NoPart, cont |-> NoPart,
              name |-> NoPart, query |-> NoPart, frag |-> NoPart]
    /\ cur = <<>>
    /\ ops = <<>>
    /\ raised = ""

\* the values of settings.BLOB_SAS_TTL_MINUTES: an hour, a day
SasTtlSettings == {60, 1440}

DlIdle == dl = [p \in Procs |-> IdleCall]

SasIdle(reqs, ttls) ==
    /\ req \in reqs
    /\ now = 0
    /\ BLOB_SAS_TTL_MINUTES \in ttls
    /\ call = NoCall
    /\ reply = NoReply

Init == StoreIdle /\ NormIdle /\ SasIdle({NoRequest}, {60}) /\ DlIdle

Next ==
    \/ list_items
    \/ get_item
    \/ create_item
    \/ upsert_item
    \/ delete_item
    \/ download_item_pdf
    \/ search_items
    \/ search_one

Spec == Init /\ [][Next]_vars

NormInit ==
    /\ ref \in Refs
    /\ cur = Render(ref)
    /\ ops = <<>>
    /\ raised = ""
    /\ StoreIdle
    /\ SasIdle({NoRequest}, {60})
    /\ DlIdle

NormNext == Normalize \/ PublicUrl \/ StripSas

SpecNorm == NormInit /\ [][NormNext]_vars

SasInit == StoreIdle /\ NormIdle /\ SasIdle(SasRequests, SasTtlSettings) /\ DlIdle

SasNext == blob_sas \/ sas_url_for_blob_path \/ upload_bytes_and_get_sas \/ Tick

SpecSas == SasInit /\ [][SasNext]_vars

\* the container as the create handlers can have left it
DlInit ==
    /\ \E S \in SUBSET Ids : store \in [S -> UNION {StoredDocs(i) : i \in Ids}]
    /\ \A i \in DOMAIN store : store[i] \in StoredDocs(i)
    /\ resp = Plain("none", 0, 0)
    /\ migrated = [i \in Ids |-> NoUrl]
    /\ NormIdle
    /\ SasIdle({NoRequest}, {60})
    /\ DlIdle

DlNext == \E p \in Procs : download_read(p) \/ download_write(p)

\* downloads only, in every interleaving of their reads and writes
SpecDl == DlInit /\ [][DlNext]_vars

RaceNext == DlNext \/ upsert_item

\* downloads, and upserts between their reads and writes
SpecRace == DlInit /\ [][RaceNext]_vars

(***************************************************************************)
(* Claims about the stored and returned documents (checked under Spec)     *)
(***************************************************************************)
\* C1 as claimed: after any sequence of create_item, upsert_item and
\* download_item_pdf calls no stored document has a "?" (a query, the SAS)
\* in its fileUrl.
C1_StoredFileUrlHasNoQuery ==
    \A i \in DOMAIN store :
        has(store[i], "fileUrl") => ~HasToken(store[i]["fileUrl"], {"?"})

DisplayOps ==
    {"list_items", "get_item", "search_items", "search_one", "create_item", "upsert_item"}

\* C2 as claimed: every document that list_items, get_item, search_items,
\* search_one, create_item and upsert_item return has a fileUrl without
\* query and fragment, and has a fileUrl whenever its blobPath is not empty.
C2_ReturnedDocsAreSanitized ==
    resp.op \in DisplayOps =>
        \A d \in resp.docs :
            /\ has(d, "fileUrl") => ~HasToken(d["fileUrl"], {"?", "#"})
            /\ truthy(d, "blobPath") => has(d, "fileUrl")

\* C10 as claimed: once a download has migrated a record (written the
\* blobPath derived from its fileUrl and redirected), every later download
\* of that record, with no upsert or delete in between, writes nothing and
\* redirects to the same URL.
C10_MigratesOnce ==
    (resp.op = "download_item_pdf" /\ resp.prior # NoUrl) =>
        /\ ~resp.wrote
        /\ resp.status = 302
        /\ resp.location = resp.prior

(***************************************************************************)
(* Claims about the signed URLs (checked under SpecSas)                    *)
(***************************************************************************)
\* C7: every call of generate_blob_sas, at blob_sas, sas_url_for_blob_path
\* and upload_bytes_and_get_sas and for every request, asks for the read
\* permission and no other.
C7_ReadOnly == call.site # "none" => call.permission = {"read"}

\* blob_sas has signed, for an attachment with a 24 hour ttl, read-only
C7_Witness ==
    /\ call.site = "blob_sas"
    /\ call.hours_raw = <<"2", "4">>
    /\ call.content_disposition.mode = "attachment"
    /\ call.permission = {"read"}

\* the ttl of the claim, in minutes: the caller's hours, an hour when the
\* caller sends none or something that is no integer
ClaimedTtl(hours_raw) ==
    IF hours_raw # <<>> /\ int_ok(hours_raw) THEN int(hours_raw) * MinutesPerHour
    ELSE MinutesPerHour

\* C8 as claimed: at every signing call site the window starts 5 minutes
\* before now and ends at now plus the ttl, so that it covers
\* [now - 5 min, now + ttl].
C8_WindowCoversSkewAndTtl ==
    call.site # "none" =>
        /\ call.start <= call.at - SkewMinutes
        /\ call.expiry >= call.at + ClaimedTtl(call.hours_raw)

\* C9 as claimed: a blob_sas request whose reference is empty or normalizes
\* to an empty object name is answered with an error, and nothing is signed.
C9_NoGrantForEmptyName ==
    (reply.op = "blob_sas" /\ _normalize_blob_name(req.path) = <<>>) =>
        /\ call = NoCall
        /\ reply.status = 400

(***************************************************************************)
(* Claims about the helpers (checked under SpecNorm)                       *)
(***************************************************************************)
HttpSchemes == {<<"http">>, <<"https">>}

\* a full URL: the input starts with http:// or https://
IsFullUrl(r) == r.form \in {"url", "url1"} /\ r.scheme \in HttpSchemes

\* an object name of "/"-separated segments: no "?", ":" or blank in it
PlainName(n) == \A k \in 1..Len(n) : n[k] \notin {"?", ":", " ", "#"}

\* the three representations of object n of the known container: the full
\* URL on the account's host (with or without a query), <container>/<n>, n
SameObject(r) ==
    /\ PlainName(r.name)
    /\ \/ r.form = "name"
       \/ r.form = "path" /\ r.cont = BLOB_CONTAINER
       \/ /\ r.form = "url"
          /\ r.scheme = <<"https">>
          /\ r.host = AccountHost
          /\ r.cont = BLOB_CONTAINER
          /\ r.frag = <<>>

\* C3 as claimed: the full URL, the qualified path and the bare name of
\* every object name n, also of an n that begins with "<container>/", all
\* normalize to n.
C3_AllFormsNormalizeToName ==
    (ops = <<"normalize">> /\ SameObject(ref)) => cur = ref.name

\* C3 (amended): for every object name n of "/"-separated segments, the full
\* URL (with or without a query) and the qualified path <container>/<n>
\* normalize to n; the bare name n normalizes to n unless n itself begins
\* with "<container>/", and then to n without that prefix.
C3_FormsNormalize ==
    (ops = <<"normalize">> /\ SameObject(ref)) =>
        cur = IF ref.form = "name" /\ startswith(ref.name, BLOB_CONTAINER \o <<"/">>)
              THEN SubSeq(ref.name, Len(BLOB_CONTAINER) + 2, Len(ref.name))
              ELSE ref.name

\* the full URL, with a query, of a hierarchical name that begins with the
\* container name has been normalized to that name
C3_Witness ==
    /\ ops = <<"normalize">>
    /\ SameObject(ref)
    /\ ref.form = "url"
    /\ ref.query # <<>>
    /\ ref.name = <<"files", "/", "2024", "/", "a.pdf">>
    /\ cur = ref.name

\* C4 as claimed: an input that starts with http:// or https:// is never
\* handled as a path or a bare name: either normalization fails with
\* MalformedReference or the object name holds neither the scheme separator
\* nor a host.
C4_UrlNeverBareName ==
    (ops = <<"normalize">> /\ IsFullUrl(ref)) =>
        \/ raised = "MalformedReference"
        \/ /\ ~contains(cur, <<":", "/", "/">>)
           /\ ~HasToken(cur, {".blob.core.windows", ".example", ".net", ".com"})

\* C5 as claimed, for the URLs of the account's own host (a URL of another
\* host is returned whole, which is C4's case): the normalized object name
\* of a full URL holds neither the query nor the fragment.
C5_NoQueryNoFragment ==
    (ops = <<"normalize">> /\ IsFullUrl(ref) /\ ref.host = AccountHost) =>
        ~HasToken(cur, {"?", "#"})

\* C6 as claimed: the URL _public_blob_url returns has no query and no
\* fragment, for a full URL, a qualified path and a bare name, also one that
\* holds a "?".
C6_PublicUrlHasNoToken ==
    ops = <<"public_url">> => ~HasToken(cur, {"?", "#"})

(***************************************************************************)
(* Claims about downloads in flight (checked under SpecDl and SpecRace)    *)
(***************************************************************************)
\* C11 as claimed: a download whose replace_item fails still uses the
\* derived blobPath for its response: it answers with the redirect to the
\* public URL of the derived path, and not with an error.
C11_PersistFailureStillRedirects ==
    \A p \in Procs :
        (dl[p].pc = "done" /\ dl[p].failed) =>
            /\ dl[p].status = 302
            /\ dl[p].location = _public_blob_url(derived_blob_path(dl[p].doc["fileUrl"]))

\* what one download alone leaves of the record it read
OneDownload(doc) ==
    IF truthy(doc, "blobPath")
    THEN doc
    ELSE set(doc, "blobPath", derived_blob_path(doc["fileUrl"]))

\* a record that was never migrated and can be: no blobPath, and a fileUrl
\* that line 282 can parse
NeverMigrated(doc) ==
    /\ ~truthy(doc, "blobPath")
    /\ truthy(doc, "fileUrl")
    /\ contains(doc["fileUrl"], <<".net", "/">>)

\* download p has answered, for item i; it had a pk and its write, if any,
\* did not fail
Served(p, i) ==
    /\ dl[p].pc = "done"
    /\ dl[p].id = i
    /\ dl[p].status # 400
    /\ ~dl[p].failed

\* C12: when two downloads of the same never-migrated record have both
\* answered, in whatever order their reads and writes ran (and no write
\* failed), the stored record is what one download alone leaves of the
\* record each of them read, and both redirect to the same URL.
C12_ConcurrentDownloadsAgree ==
    \A p, q \in Procs, i \in Ids :
        (p # q /\ Served(p, i) /\ Served(q, i) /\ NeverMigrated(dl[p].doc)) =>
            /\ i \in DOMAIN store
            /\ store[i] = OneDownload(dl[p].doc)
            /\ store[i] = OneDownload(dl[q].doc)
            /\ dl[p].status = 302
            /\ dl[q].status = 302
            /\ dl[p].location = dl[q].location

\* two downloads read the record before either wrote, and both wrote
C12_Witness ==
    \E p, q \in Procs :
        /\ p # q
        /\ Served(p, dl[q].id)
        /\ Served(q, dl[p].id)
        /\ dl[p].wrote
        /\ dl[q].wrote
        /\ dl[p].doc = dl[q].doc
        /\ NeverMigrated(dl[p].doc)
        /\ dl[p].location = UrlPlain

\* C16 as claimed: the write of a download changes only the blobPath of the
\* stored record: when an upsert of the same item has committed before it
\* (between the download's read and the write), every other field of the
\* record is after the write what it was before it.
C16_WriteChangesOnlyBlobPath ==
    [][\A p \in Procs :
        (/\ dl[p].pc = "write"
         /\ dl'[p].pc = "done"
         /\ dl'[p].wrote
         /\ resp.op = "upsert_item"
         /\ resp.id = dl[p].id
         /\ resp.wrote) =>
            \A k \in DOMAIN store[dl[p].id] \ {"blobPath"} :
                /\ k \in DOMAIN store'[dl[p].id]
                /\ store'[dl[p].id][k] = store[dl[p].id][k]]_vars

(***************************************************************************)
(* Claims about round trips of the helpers (checked under SpecNorm)        *)
(***************************************************************************)
\* the reference names object n of the known container by its bare name or
\* by its qualified path
NamesObject(r) ==
    /\ PlainName(r.name)
    /\ \/ r.form = "name"
       \/ r.form = "path" /\ r.cont = BLOB_CONTAINER

\* C13 as claimed: for every object name n, given as bare name or as
\* <container>/<n>, normalizing the public URL built from it returns n.
C13_RoundTrip ==
    (ops = <<"public_url", "normalize">> /\ NamesObject(ref)) => cur = ref.name

\* C13 (amended): normalizing the public URL built from <container>/<n>
\* returns n; normalizing the public URL built from the bare name n returns
\* n unless n begins with "<container>/", and then n without that prefix.
C13_RoundTripOfPaths ==
    (ops = <<"public_url", "normalize">> /\ NamesObject(ref)) =>
        cur = IF ref.form = "name" /\ startswith(ref.name, BLOB_CONTAINER \o <<"/">>)
              THEN SubSeq(ref.name, Len(BLOB_CONTAINER) + 2, Len(ref.name))
              ELSE ref.name

\* the public URL of the qualified path of a hierarchical name that begins
\* with the container name has been normalized back to that name
C13_Witness ==
    /\ ops = <<"public_url", "normalize">>
    /\ ref.form = "path"
    /\ ref.cont = BLOB_CONTAINER
    /\ ref.name = <<"files", "/", "2024", "/", "a.pdf">>
    /\ cur = ref.name

\* C14 as claimed: for every input x, normalizing
\* <container>/<normalize(x)> gives normalize(x) again.
C14_IdempotentThroughQualifiedPath ==
    ops = <<"normalize">> =>
        _normalize_blob_name(BLOB_CONTAINER \o <<"/">> \o cur) = cur

(***************************************************************************)
(* Claim about the Content-Disposition (checked under SpecSas)             *)
(***************************************************************************)
\* C15 as claimed: at every signing call site the Content-Disposition is
\* attachment when the request asks for it (?att=1, which only blob_sas can
\* be asked) and inline otherwise, with the caller's filename when one is
\* given and the last "/"-segment of the object name otherwise.
C15_ContentDisposition ==
    call.site # "none" =>
        call.content_disposition =
            [mode |-> IF call.site = "blob_sas" /\ req.att = "1"
                      THEN "attachment" ELSE "inline",
             filename |-> IF req.filename # <<>>
                          THEN req.filename ELSE last_segment(call.blob_name)]

====
